---- MODULE Spec2Model ----
(***************************************************************************)
(* Model of park-analysis-code.py: the batch pipeline                      *)
(*   read_csv -> clean -> summary -> distribution -> diversity ->          *)
(*   correlation -> map note -> "Analysis complete".                       *)
(*                                                                         *)
(* A table is a sequence of rows; a row is a function from the column      *)
(* names the file has to cells.  A cell is a record [k, v]:                *)
(*   k = "int"   the integer v                                             *)
(*   k = "float" the non-integral or integral float v/2 (v counts halves)  *)
(*   k = "str"   a text value; texts are named by their rank v in sort     *)
(*               order (groupby sorts its keys): TextCell(1) < TextCell(2)  *)
(*   k = "nan"   a missing value (empty CSV field)                         *)
(* A correlation coefficient is kept exactly: NaN, or the sign of r and    *)
(* r^2 as a reduced fraction (the code computes it in doubles).            *)
(***************************************************************************)
EXTENDS Integers, Sequences, FiniteSets

VARIABLES file, pc, error, returned, df, duplicates, facility_counts,
          park_diversity, pivot_df, correlation, printed, saved

vars == <<file, pc, error, returned, df, duplicates, facility_counts,
          park_diversity, pivot_df, correlation, printed, saved>>

\* ---------------------------------------------------------------- bounds
MaxRows == 3
MaxDirtyRows == 2
MaxCount == 2

\* ----------------------------------------------------------------- cells
IntCell(n) == [k |-> "int", v |-> n]
FloatCell(h) == [k |-> "float", v |-> h]
TextCell(i) == [k |-> "str", v |-> i]
NaN == [k |-> "nan", v |-> 0]

Columns == {"ParkID", "Name", "FacilityType", "FacilityCount"}

\* ------------------------------------------------------ sequence helpers
RECURSIVE SumSeq(_)
SumSeq(s) == IF s = <<>> THEN 0 ELSE s[1] + SumSeq(Tail(s))

RECURSIVE SelectRows(_, _, _)
\* the rows whose cell in column c is the cell x, in table order
SelectRows(rows, c, x) ==
    IF rows = <<>> THEN <<>>
    ELSE IF rows[1][c] = x
         THEN <<rows[1]>> \o SelectRows(Tail(rows), c, x)
         ELSE SelectRows(Tail(rows), c, x)

RECURSIVE SortedKeys(_)
\* the text cells of a set in ascending order (groupby's sort=True)
SortedKeys(S) ==
    IF S = {} THEN <<>>
    ELSE LET m == CHOOSE x \in S : \A y \in S : x.v <= y.v
         IN <<m>> \o SortedKeys(S \ {m})

\* the non-missing values of column c (groupby and nunique drop NaN keys)
KeysOf(rows, c) == {rows[i][c] : i \in {j \in DOMAIN rows : rows[j][c].k # "nan"}}

Range(s) == {s[i] : i \in DOMAIN s}

\* ------------------------------------------------------- load_and_clean_data
NoError == [type |-> "none", line |-> 0]
Raised(t, l) == [type |-> t, line |-> l]

\* Series.fillna(0): a missing value becomes 0, anything else is kept
fillna(c) == IF c.k = "nan" THEN IntCell(0) ELSE c

\* a float-to-int cast truncates toward zero (h counts halves)
Trunc(h) == IF h >= 0 THEN h \div 2 ELSE -((-h) \div 2)

\* Series.astype(int) accepts a column iff it holds no text and no missing value
CanCast(c) == c.k \in {"int", "float"}
\* mutant: the cast result is not kept
astype_int_skipped(c) == c
astype_int(c) == IF c.k = "float" THEN IntCell(Trunc(c.v)) ELSE c

\* df[c] = df[c].fillna(0) and df[c] = df[c].astype(int)
FillColumn(rows, c) == [i \in DOMAIN rows |-> [rows[i] EXCEPT ![c] = fillna(@)]]
CastColumn(rows, c) == [i \in DOMAIN rows |-> [rows[i] EXCEPT ![c] = astype_int(@)]]
ColumnCastable(rows, c) == \A i \in DOMAIN rows : CanCast(rows[i][c])

\* DataFrame.duplicated(): the positions of rows equal to an earlier row
\* (missing values compare equal to each other)
duplicated(rows) == {i \in DOMAIN rows : \E j \in 1..(i - 1) : rows[j] = rows[i]}

RECURSIVE drop_duplicates_keep_last(_)
\* mutant: keep='last'
drop_duplicates_keep_last(rows) ==
    IF rows = <<>> THEN <<>>
    ELSE IF \E j \in 2..Len(rows) : rows[j] = rows[1]
         THEN drop_duplicates_keep_last(Tail(rows))
         ELSE <<rows[1]>> \o drop_duplicates_keep_last(Tail(rows))

RECURSIVE drop_duplicates(_)
\* DataFrame.drop_duplicates(): keep='first', order kept
drop_duplicates(rows) ==
    IF rows = <<>> THEN <<>>
    ELSE LET n == Len(rows)
             front == SubSeq(rows, 1, n - 1)
         IN IF n \in duplicated(rows)
            THEN drop_duplicates(front)
            ELSE Append(drop_duplicates(front), rows[n])

\* the table after lines 24-28 (both columns present and castable)
Converted(rows) ==
    CastColumn(CastColumn(FillColumn(rows, "FacilityCount"), "ParkID"),
               "FacilityCount")

\* mutant: ParkID is converted before FacilityCount is filled
LoadErrorParkIDFirst(f) ==
    IF ~f.exists THEN Raised("FileNotFoundError", 18)
    ELSE IF "ParkID" \notin f.columns THEN Raised("KeyError", 27)
    ELSE IF "FacilityCount" \notin f.columns THEN Raised("KeyError", 24)
    ELSE IF ~ColumnCastable(f.rows, "ParkID") THEN Raised("ValueError", 27)
    ELSE IF ~ColumnCastable(FillColumn(f.rows, "FacilityCount"), "FacilityCount")
         THEN Raised("ValueError", 28)
    ELSE NoError

\* the first exception load_and_clean_data raises on f, or NoError
LoadError(f) ==
    IF ~f.exists THEN Raised("FileNotFoundError", 18)
    ELSE IF "FacilityCount" \notin f.columns THEN Raised("KeyError", 24)
    ELSE IF "ParkID" \notin f.columns THEN Raised("KeyError", 27)
    ELSE IF ~ColumnCastable(f.rows, "ParkID") THEN Raised("ValueError", 27)
    ELSE IF ~ColumnCastable(FillColumn(f.rows, "FacilityCount"), "FacilityCount")
         THEN Raised("ValueError", 28)
    ELSE NoError

DuplicateCount(rows) == Cardinality(duplicated(rows))

load_and_clean_data(rows) ==
    LET conv == Converted(rows)
    IN IF DuplicateCount(conv) > 0 THEN drop_duplicates(conv) ELSE conv

\* --------------------------------------------------------------- grouping
Entry(key, value) == [key |-> key, value |-> value]

CountOf(row) == row["FacilityCount"].v

\* sum of FacilityCount over the rows of a table
SumCounts(rows) == SumSeq([i \in DOMAIN rows |-> CountOf(rows[i])])

\* mutant: count() in place of sum()
groupby_count(rows, c) ==
    LET keys == SortedKeys(KeysOf(rows, c))
    IN [i \in DOMAIN keys |-> Entry(keys[i], Len(SelectRows(rows, c, keys[i])))]

\* df.groupby(c)['FacilityCount'].sum(): one entry per non-missing key of
\* column c, keys ascending
groupby_sum(rows, c) ==
    LET keys == SortedKeys(KeysOf(rows, c))
    IN [i \in DOMAIN keys |-> Entry(keys[i], SumCounts(SelectRows(rows, c, keys[i])))]

\* mutant: count() in place of nunique()
groupby_size(rows) ==
    LET keys == SortedKeys(KeysOf(rows, "Name"))
    IN [i \in DOMAIN keys |-> Entry(keys[i], Len(SelectRows(rows, "Name", keys[i])))]

\* df.groupby('Name')['FacilityType'].nunique(): distinct non-missing types
groupby_nunique(rows) ==
    LET keys == SortedKeys(KeysOf(rows, "Name"))
    IN [i \in DOMAIN keys |->
          Entry(keys[i],
                Cardinality(KeysOf(SelectRows(rows, "Name", keys[i]), "FacilityType")))]

Arrangements(s) ==
    LET n == Len(s)
        P == {p \in [1..n -> 1..n] : \A i, j \in 1..n : p[i] = p[j] => i = j}
    IN {[i \in 1..n |-> s[p[i]]] : p \in P}

\* the order sort_values(ascending=False) requires
Descending(s) == \A i, j \in DOMAIN s : i < j => s[i].value >= s[j].value

\* mutant: ascending=True
sort_values_ascending(s) ==
    {t \in Arrangements(s) : \A i, j \in DOMAIN t : i < j => t[i].value <= t[j].value}

\* Series.sort_values(ascending=False) with the default kind='quicksort',
\* which is not a stable sort: every descending arrangement is an outcome
sort_values(s) == {t \in Arrangements(s) : Descending(t)}

\* -------------------------------------------------------------- pivot_table
\* the rows pivot_table groups: both keys present (groupby drops NaN keys)
RECURSIVE KeyedRows(_)
KeyedRows(rows) ==
    IF rows = <<>> THEN <<>>
    ELSE IF rows[1]["Name"].k # "nan" /\ rows[1]["FacilityType"].k # "nan"
         THEN <<rows[1]>> \o KeyedRows(Tail(rows))
         ELSE KeyedRows(Tail(rows))

\* mutant: aggfunc='count'
pivot_table_count(rows) ==
    LET keyed == KeyedRows(rows)
        index == SortedKeys(KeysOf(keyed, "Name"))
        columns == SortedKeys(KeysOf(keyed, "FacilityType"))
    IN [index |-> index,
        columns |-> columns,
        values |-> [p \in Range(index), t \in Range(columns) |->
                      Len(SelectRows(SelectRows(keyed, "Name", p), "FacilityType", t))]]

\* df.pivot_table(index='Name', columns='FacilityType', values='FacilityCount',
\*                aggfunc='sum', fill_value=0)
pivot_table(rows) ==
    LET keyed == KeyedRows(rows)
        index == SortedKeys(KeysOf(keyed, "Name"))
        columns == SortedKeys(KeysOf(keyed, "FacilityType"))
    IN [index |-> index,
        columns |-> columns,
        values |-> [p \in Range(index), t \in Range(columns) |->
                      SumCounts(SelectRows(SelectRows(keyed, "Name", p),
                                           "FacilityType", t))]]

NoFrame == [index |-> <<>>, columns |-> <<>>, values |-> <<>>]

\* ------------------------------------------------------------- DataFrame.corr
RECURSIVE Gcd(_, _)
Gcd(a, b) == IF b = 0 THEN a ELSE Gcd(b, a % b)

Sign(x) == IF x > 0 THEN 1 ELSE IF x < 0 THEN -1 ELSE 0

NaNCorr == [nan |-> TRUE, sign |-> 0, num |-> 0, den |-> 1]
\* the coefficient with the sign sg and the square n/d
Coefficient(sg, n, d) ==
    LET g == Gcd(n, d)
    IN [nan |-> FALSE, sign |-> sg, num |-> n \div g, den |-> d \div g]
One == Coefficient(1, 1, 1)

Dot(x, y) == SumSeq([i \in DOMAIN x |-> x[i] * y[i]])

\* n times the sum of products of deviations from the means
Deviations(x, y) == Len(x) * Dot(x, y) - SumSeq(x) * SumSeq(y)

\* mutant: cov() in place of corr(): the sample covariance
Covariance(x, y) ==
    LET n == Len(x)
        cxy == Deviations(x, y)
    IN IF n < 2
       THEN NaNCorr
       ELSE Coefficient(Sign(cxy), cxy * cxy, (n * (n - 1)) * (n * (n - 1)))

\* mutant: an undefined coefficient is replaced by 0
PearsonZeroFilled(x, y) ==
    LET cxy == Deviations(x, y)
        vx == Deviations(x, x)
        vy == Deviations(y, y)
    IN IF Len(x) < 1 \/ vx * vy = 0
       THEN Coefficient(0, 0, 1)
       ELSE Coefficient(Sign(cxy), cxy * cxy, vx * vy)

\* Pearson's r of two columns over the same parks (min_periods=1):
\* cov / sqrt(var_x * var_y), NaN when the divisor is 0
Pearson(x, y) ==
    LET cxy == Deviations(x, y)
        vx == Deviations(x, x)
        vy == Deviations(y, y)
    IN IF Len(x) < 1 \/ vx * vy = 0
       THEN NaNCorr
       ELSE Coefficient(Sign(cxy), cxy * cxy, vx * vy)

\* a pivot column as the vector of its values in index order
ColumnOf(pv, t) == [i \in DOMAIN pv.index |-> pv.values[pv.index[i], t]]

\* pivot_df.corr(): facility types against facility types
corr(pv) ==
    [index |-> pv.columns,
     columns |-> pv.columns,
     values |-> [a \in Range(pv.columns), b \in Range(pv.columns) |->
                   Pearson(ColumnOf(pv, a), ColumnOf(pv, b))]]

\* ------------------------------------------------------------------- inputs
ParkNames == {1, 2, 3}
FacilityTypes == {1, 2}

\* a regular record: the park's id and name, a facility type, and a count
\* that is 1 or the largest count
PlainRows ==
    {[ParkID |-> IntCell(n), Name |-> TextCell(n),
      FacilityType |-> TextCell(t), FacilityCount |-> IntCell(c)] :
        n \in ParkNames, t \in FacilityTypes, c \in {1, MaxCount}}

\* what an irregular field of a column can hold: an empty field, a
\* non-numeric text, the float 1.5
Irregular(c) ==
    IF c \in {"ParkID", "FacilityCount"}
    THEN {NaN, TextCell(1), FloatCell(3)}
    ELSE {NaN}

CsvFile(cols, t) ==
    [exists |-> TRUE, columns |-> cols,
     rows |-> [i \in DOMAIN t |-> [c \in cols |-> t[i][c]]]]

NoFile == [exists |-> FALSE, columns |-> {}, rows |-> <<>>]

\* the file at file_path: absent; or a table of up to MaxRows regular records;
\* or a table of up to MaxDirtyRows records with one irregular field; or such
\* a table without some of the four columns
IsInputFile(f) ==
    \/ f = NoFile
    \/ \E m \in 0..MaxRows : \E t \in [1..m -> PlainRows] :
          f = CsvFile(Columns, t)
    \/ \E m \in 1..MaxDirtyRows : \E t \in [1..m -> PlainRows] :
          \E i \in 1..m, c \in Columns : \E x \in Irregular(c) :
             f = CsvFile(Columns, [t EXCEPT ![i][c] = x])
    \/ \E m \in 0..MaxDirtyRows : \E t \in [1..m -> PlainRows] :
          \E cols \in (SUBSET Columns) \ {Columns} :
             f = CsvFile(cols, t)

\* ----------------------------------------------------------------------- main
\* mutant: the exception is caught and main goes on to the next stage
Swallow(next) == next

\* main has no try/except: an exception raised by a stage ends the run, whatever
\* stage would have come next
Propagate(next) == "failed"

Raise(e, next, out) ==
    /\ pc' = Propagate(next)
    /\ error' = e
    /\ printed' = printed \o out
    /\ UNCHANGED <<file, returned, df, duplicates, facility_counts,
                   park_diversity, pivot_df, correlation, saved>>

Init ==
    /\ IsInputFile(file)
    /\ pc = "load_and_clean_data"
    /\ error = NoError
    /\ returned = <<>>
    /\ df = <<>>
    /\ duplicates = 0
    /\ facility_counts = <<>>
    /\ park_diversity = <<>>
    /\ pivot_df = NoFrame
    /\ correlation = NoFrame
    /\ printed = <<>>
    /\ saved = {}

\* main line 139: df = load_and_clean_data(file_path)
LoadAndClean ==
    /\ pc = "load_and_clean_data"
    /\ LET e == LoadError(file)
       IN IF e # NoError
          THEN Raise(e, "summary",
                     IF file.exists THEN <<"Missing values before cleaning">> ELSE <<>>)
          ELSE /\ df' = load_and_clean_data(file.rows)
               /\ duplicates' = DuplicateCount(Converted(file.rows))
               /\ printed' = printed \o <<"Missing values before cleaning",
                                          "Number of duplicate rows",
                                          "Missing values after cleaning",
                                          "Data shape">>
               /\ returned' = Append(returned, "load_and_clean_data")
               /\ pc' = "summary"
               /\ UNCHANGED <<file, error, facility_counts, park_diversity,
                              pivot_df, correlation, saved>>

\* main lines 141-149: head, describe, and the per-type aggregate table
Summary ==
    /\ pc = "summary"
    /\ LET out == <<"Data Overview:", "Data Summary:",
                    "Summary Statistics by Facility Type:">>
       IN IF "FacilityType" \notin file.columns
          THEN Raise(Raised("KeyError", 149), "analyze_facility_distribution", out)
          ELSE /\ printed' = printed \o out
               /\ pc' = "analyze_facility_distribution"
               /\ UNCHANGED <<file, error, returned, df, duplicates, facility_counts,
                              park_diversity, pivot_df, correlation, saved>>

\* main line 152: facility_counts = analyze_facility_distribution(df)
AnalyzeFacilityDistribution ==
    /\ pc = "analyze_facility_distribution"
    /\ IF "FacilityType" \notin file.columns
       THEN Raise(Raised("KeyError", 51), "analyze_parks_by_facility_diversity", <<>>)
       ELSE \E s \in sort_values(groupby_sum(df, "FacilityType")) :
              IF s = <<>>
              THEN \* a bar chart of an empty Series cannot be drawn
                   Raise(Raised("IndexError", 58), "analyze_parks_by_facility_diversity",
                         <<"Top 10 Facility Types by Count:">>)
              ELSE /\ facility_counts' = s
                   /\ printed' = Append(printed, "Top 10 Facility Types by Count:")
                   /\ saved' = saved \cup {"facility_distribution.png"}
                   /\ returned' = Append(returned, "analyze_facility_distribution")
                   /\ pc' = "analyze_parks_by_facility_diversity"
                   /\ UNCHANGED <<file, error, df, duplicates, park_diversity,
                                  pivot_df, correlation>>

\* main line 155: park_diversity = analyze_parks_by_facility_diversity(df)
AnalyzeParksByFacilityDiversity ==
    /\ pc = "analyze_parks_by_facility_diversity"
    /\ IF {"Name", "FacilityType"} \cap file.columns # {"Name", "FacilityType"}
       THEN Raise(Raised("KeyError", 76), "analyze_facility_correlation", <<>>)
       ELSE \E s \in sort_values(groupby_nunique(df)) :
              IF s = <<>>
              THEN Raise(Raised("IndexError", 83), "analyze_facility_correlation",
                         <<"Top 10 Parks by Facility Diversity:">>)
              ELSE /\ park_diversity' = s
                   /\ printed' = Append(printed, "Top 10 Parks by Facility Diversity:")
                   /\ saved' = saved \cup {"park_diversity.png"}
                   /\ returned' = Append(returned, "analyze_parks_by_facility_diversity")
                   /\ pc' = "analyze_facility_correlation"
                   /\ UNCHANGED <<file, error, df, duplicates, facility_counts,
                                  pivot_df, correlation>>

\* main line 158: correlation = analyze_facility_correlation(df)
AnalyzeFacilityCorrelation ==
    /\ pc = "analyze_facility_correlation"
    /\ IF {"Name", "FacilityType"} \cap file.columns # {"Name", "FacilityType"}
       THEN Raise(Raised("KeyError", 100), "create_facility_map", <<>>)
       ELSE LET pv == pivot_table(df)
            IN IF pv.columns = <<>>
               THEN \* a heatmap of an empty matrix cannot be drawn
                    Raise(Raised("ValueError", 113), "create_facility_map", <<>>)
               ELSE /\ pivot_df' = pv
                    /\ correlation' = corr(pv)
                    /\ saved' = saved \cup {"facility_correlation.png"}
                    /\ returned' = Append(returned, "analyze_facility_correlation")
                    /\ pc' = "create_facility_map"
                    /\ UNCHANGED <<file, error, df, duplicates, facility_counts,
                                   park_diversity, printed>>

\* main line 161: create_facility_map(df) only prints a note
CreateFacilityMap ==
    /\ pc = "create_facility_map"
    /\ printed' = Append(printed, "Note: To create an actual map visualization")
    /\ returned' = Append(returned, "create_facility_map")
    /\ pc' = "complete"
    /\ UNCHANGED <<file, error, df, duplicates, facility_counts, park_diversity,
                   pivot_df, correlation, saved>>

\* main line 163
Complete ==
    /\ pc = "complete"
    /\ printed' = Append(printed, "Analysis complete!")
    /\ pc' = "done"
    /\ UNCHANGED <<file, error, returned, df, duplicates, facility_counts,
                   park_diversity, pivot_df, correlation, saved>>

Next ==
    \/ LoadAndClean
    \/ Summary
    \/ AnalyzeFacilityDistribution
    \/ AnalyzeParksByFacilityDiversity
    \/ AnalyzeFacilityCorrelation
    \/ CreateFacilityMap
    \/ Complete

Spec == Init /\ [][Next]_vars

\* ------------------------------------------------------------ properties
Returned(f) == f \in Range(returned)

RECURSIVE TotalOf(_, _)
\* manual aggregation: the sum of FacilityCount over the rows at positions I
TotalOf(rows, I) ==
    IF I = {} THEN 0
    ELSE LET i == CHOOSE j \in I : TRUE
         IN rows[i]["FacilityCount"].v + TotalOf(rows, I \ {i})

Present(rows, c) == {i \in DOMAIN rows : rows[i][c].k # "nan"}
Where(rows, c, x) == {i \in DOMAIN rows : rows[i][c] = x}
Keys(s) == {s[i].key : i \in DOMAIN s}
DistinctKeys(s) == \A i, j \in DOMAIN s : s[i].key = s[j].key => i = j

\* C1: once load_and_clean_data has returned, every FacilityCount and ParkID
\* of the cleaned table is an integer (none is missing), every input row whose
\* FacilityCount was missing is in the cleaned table with FacilityCount 0, and
\* once the distribution is computed that row's facility type has its entry.
C1_CleanedValuesAreIntegers ==
    Returned("load_and_clean_data") =>
        /\ \A i \in DOMAIN df :
              df[i]["FacilityCount"].k = "int" /\ df[i]["ParkID"].k = "int"
        /\ \A i \in DOMAIN file.rows :
              file.rows[i]["FacilityCount"] = NaN =>
                 /\ \E j \in DOMAIN df :
                       /\ df[j]["FacilityCount"] = IntCell(0)
                       /\ df[j]["Name"] = file.rows[i]["Name"]
                       /\ df[j]["FacilityType"] = file.rows[i]["FacilityType"]
                 /\ Returned("analyze_facility_distribution") =>
                       file.rows[i]["FacilityType"] \in Keys(facility_counts)

\* C1 witness: a table of two rows, one with a missing FacilityCount, has been
\* cleaned and aggregated.
C1_Witness ==
    /\ Returned("analyze_facility_distribution")
    /\ Len(df) = 2
    /\ \E i \in DOMAIN file.rows : file.rows[i]["FacilityCount"] = NaN

\* C2: once load_and_clean_data has returned, the rows of the cleaned table are
\* pairwise distinct, they are the first occurrences of the converted input
\* rows in input order, and the reported duplicate count is the number of
\* input rows minus the number of returned rows.
C2_FirstOccurrencesKept ==
    Returned("load_and_clean_data") =>
        LET cast == Converted(file.rows)
            first == {i \in DOMAIN cast : \A j \in 1..(i - 1) : cast[j] # cast[i]}
        IN /\ \A i, j \in DOMAIN df : df[i] = df[j] => i = j
           /\ Len(df) = Cardinality(first)
           /\ \A i \in first : df[Cardinality({j \in first : j <= i})] = cast[i]
           /\ duplicates = Len(file.rows) - Len(df)

\* C2 witness: the third row repeats the first and differs from the second;
\* two rows are returned and one duplicate is reported.
C2_Witness ==
    /\ Returned("load_and_clean_data")
    /\ Len(file.rows) = 3
    /\ file.rows[1] = file.rows[3]
    /\ file.rows[1] # file.rows[2]
    /\ Len(df) = 2
    /\ duplicates = 1

\* C3: the distribution has exactly one entry for each facility type that
\* occurs in the cleaned table, and its value is the sum of FacilityCount over
\* the cleaned rows of that type.
C3_DistributionSums ==
    Returned("analyze_facility_distribution") =>
        /\ DistinctKeys(facility_counts)
        /\ Keys(facility_counts) = {df[i]["FacilityType"] : i \in Present(df, "FacilityType")}
        /\ \A k \in DOMAIN facility_counts :
              facility_counts[k].value =
                 TotalOf(df, Where(df, "FacilityType", facility_counts[k].key))

\* C3 witness: a facility type with two cleaned rows and a total of 3, beside
\* another facility type.
C3_Witness ==
    /\ Returned("analyze_facility_distribution")
    /\ Len(facility_counts) = 2
    /\ \E k \in DOMAIN facility_counts :
          /\ facility_counts[k].value = 3
          /\ Cardinality(Where(df, "FacilityType", facility_counts[k].key)) = 2

\* the position in the cleaned table of the first row of facility type x
FirstRowOf(x) ==
    CHOOSE i \in Where(df, "FacilityType", x) :
        \A j \in Where(df, "FacilityType", x) : i <= j

\* C4 (as stated): the distribution is in descending order of total, and
\* facility types with equal totals are in the order in which their first rows
\* appear in the cleaned table.
C4_TiesInFirstAppearanceOrder ==
    Returned("analyze_facility_distribution") =>
        /\ Descending(facility_counts)
        /\ \A i, j \in DOMAIN facility_counts :
              (i < j /\ facility_counts[i].value = facility_counts[j].value) =>
                 FirstRowOf(facility_counts[i].key) < FirstRowOf(facility_counts[j].key)

\* C4 (amended): the distribution is in descending order of total; it is an
\* arrangement of the per-type totals formed in ascending facility-type order,
\* and the order of equal totals is whatever the unstable sort leaves.
C4_DescendingByTotal ==
    Returned("analyze_facility_distribution") =>
        /\ \A i \in 1..(Len(facility_counts) - 1) :
              facility_counts[i].value >= facility_counts[i + 1].value
        /\ facility_counts \in Arrangements(groupby_sum(df, "FacilityType"))

\* C4 witness: two facility types with different totals, the one whose rows
\* come later in the table ranked first.
C4_Witness ==
    /\ Returned("analyze_facility_distribution")
    /\ Len(facility_counts) = 2
    /\ facility_counts[1].value > facility_counts[2].value
    /\ FirstRowOf(facility_counts[1].key) > FirstRowOf(facility_counts[2].key)

\* C5: the diversity result has one entry for each park name that occurs in
\* the cleaned table, its value is the number of distinct facility types among
\* the rows of that name, and the entries are in descending order of value.
C5_DiversityCounts ==
    Returned("analyze_parks_by_facility_diversity") =>
        /\ DistinctKeys(park_diversity)
        /\ Keys(park_diversity) = {df[i]["Name"] : i \in Present(df, "Name")}
        /\ \A k \in DOMAIN park_diversity :
              park_diversity[k].value =
                 Cardinality({df[i]["FacilityType"] :
                                i \in Where(df, "Name", park_diversity[k].key)
                                      \cap Present(df, "FacilityType")})
        /\ \A i \in 1..(Len(park_diversity) - 1) :
              park_diversity[i].value >= park_diversity[i + 1].value

\* C5 witness: a park with two facility types ranked above a park with one,
\* whose name sorts first.
C5_Witness ==
    /\ Returned("analyze_parks_by_facility_diversity")
    /\ Len(df) = 3
    /\ Len(park_diversity) = 2
    /\ park_diversity[1].value = 2
    /\ park_diversity[2].value = 1
    /\ park_diversity[1].key.v > park_diversity[2].key.v

StageOrder ==
    <<"load_and_clean_data", "analyze_facility_distribution",
      "analyze_parks_by_facility_diversity", "analyze_facility_correlation",
      "create_facility_map">>

\* C6: a failure ends the run where it is raised: the run is then in its final
\* state with no stage left to execute, the stages that returned are an initial
\* part of the stage order, no result of a later stage exists, and 'Analysis
\* complete' is printed only when cleaning and the distribution, diversity and
\* correlation analyzers all returned, in that order, without an error.
C6_FailureAborts ==
    /\ error # NoError => pc = "failed"
    /\ pc = "failed" => error # NoError /\ ~ENABLED Next
    /\ returned = SubSeq(StageOrder, 1, Len(returned))
    /\ ~Returned("analyze_facility_distribution") => facility_counts = <<>>
    /\ ~Returned("analyze_parks_by_facility_diversity") => park_diversity = <<>>
    /\ ~Returned("analyze_facility_correlation") => correlation = NoFrame
    /\ "Analysis complete!" \in Range(printed) =>
          error = NoError /\ returned = StageOrder

\* C6 witness: the diversity analyzer raised after cleaning and the
\* distribution analyzer had returned.
C6_Witness ==
    /\ pc = "failed"
    /\ error.line = 76
    /\ returned = <<"load_and_clean_data", "analyze_facility_distribution">>
    /\ "facility_distribution.png" \in saved

Absent == Columns \ file.columns

\* C7 (as stated): when one of the four required columns is absent the run
\* fails, and the failure is the missing-column error raised where an
\* aggregation is attempted (lines 51, 76, 100, 149), not earlier.
C7_RaisedAtAggregation ==
    (file.exists /\ Cardinality(Absent) = 1) =>
        /\ pc # "done"
        /\ pc = "failed" =>
              error.type = "KeyError" /\ error.line \in {51, 76, 100, 149}

\* C7 (amended): when a required column is absent the run never completes.
\* Without FacilityCount it fails in load_and_clean_data at line 24, else
\* without ParkID at line 27, in both cases before any aggregation; else
\* without FacilityType at the summary aggregation of main, line 149, before
\* any analyzer; with only Name absent the distribution analyzer runs first
\* and the missing-column error is raised by the diversity analyzer at line
\* 76, unless the distribution of a table without rows could not be drawn.
C7_RaisedAtFirstUse ==
    (file.exists /\ Absent # {}) =>
        /\ pc \notin {"complete", "done"}
        /\ ~Returned("analyze_parks_by_facility_diversity")
        /\ pc = "failed" =>
              IF "FacilityCount" \in Absent
              THEN error = Raised("KeyError", 24) /\ returned = <<>>
              ELSE IF "ParkID" \in Absent
              THEN error = Raised("KeyError", 27) /\ returned = <<>>
              ELSE IF "FacilityType" \in Absent
              THEN error = Raised("KeyError", 149) /\ returned = <<"load_and_clean_data">>
              ELSE \/ /\ error = Raised("KeyError", 76)
                      /\ returned = <<"load_and_clean_data", "analyze_facility_distribution">>
                   \/ /\ error = Raised("IndexError", 58)
                      /\ df = <<>>

\* C7 witness: a run on a file without the ParkID column has failed.
C7_Witness ==
    /\ file.exists
    /\ Absent = {"ParkID"}
    /\ Len(file.rows) = 2
    /\ pc = "failed"

Types(m) == Range(m.columns)
Parks(m) == Range(m.index)

\* the pivot column of facility type a takes at least two values over the parks
Varies(a) == \E p, q \in Parks(pivot_df) : pivot_df.values[p, a] # pivot_df.values[q, a]

\* C8: the correlation matrix is square over the facility types of the pivot,
\* symmetric, and 1 on the diagonal for every facility type whose pivot column
\* is not constant over the parks.
C8_SymmetricUnitDiagonal ==
    Returned("analyze_facility_correlation") =>
        /\ correlation.index = pivot_df.columns
        /\ correlation.columns = pivot_df.columns
        /\ DOMAIN correlation.values = Types(pivot_df) \X Types(pivot_df)
        /\ \A a, b \in Types(pivot_df) :
              correlation.values[a, b] = correlation.values[b, a]
        /\ \A a \in Types(pivot_df) :
              Varies(a) => correlation.values[a, a] = One

\* C8 witness: two facility types over three parks whose correlation is
\* neither undefined nor of magnitude 1.
C8_Witness ==
    /\ Returned("analyze_facility_correlation")
    /\ Len(pivot_df.index) = 3
    /\ \E a, b \in Types(pivot_df) :
          /\ a # b
          /\ ~correlation.values[a, b].nan
          /\ correlation.values[a, b].sign = -1
          /\ correlation.values[a, b].num < correlation.values[a, b].den

\* C9 (as stated): every entry in the row and column of a facility type whose
\* pivot column is constant is NaN, and a table with a single facility type
\* gives a 1x1 matrix holding NaN.
C9_SingleTypeIsNaN ==
    Returned("analyze_facility_correlation") =>
        /\ \A a, b \in Types(pivot_df) :
              ~Varies(a) =>
                 correlation.values[a, b] = NaNCorr /\ correlation.values[b, a] = NaNCorr
        /\ Cardinality(KeysOf(df, "FacilityType")) = 1 =>
              /\ Len(correlation.columns) = 1
              /\ \A a \in Types(correlation) : correlation.values[a, a] = NaNCorr

\* C9 (amended): every entry in the row and column of a facility type whose
\* pivot column is constant is NaN; a table with a single facility type gives
\* a 1x1 matrix, whose entry is NaN when every park has the same total of that
\* type (or there is one park) and 1 otherwise.
C9_ConstantColumnIsNaN ==
    Returned("analyze_facility_correlation") =>
        /\ \A a, b \in Types(pivot_df) :
              ~Varies(a) =>
                 correlation.values[a, b] = NaNCorr /\ correlation.values[b, a] = NaNCorr
        /\ Cardinality(KeysOf(df, "FacilityType")) = 1 =>
              /\ Len(correlation.columns) = 1
              /\ \A a \in Types(correlation) :
                    correlation.values[a, a] = IF Varies(a) THEN One ELSE NaNCorr

\* C9 witness: two facility types over two parks, one with the same total in
\* both parks, the other not.
C9_Witness ==
    /\ Returned("analyze_facility_correlation")
    /\ Len(pivot_df.index) = 2
    /\ \E a, b \in Types(pivot_df) :
          /\ ~Varies(a)
          /\ Varies(b)
          /\ pivot_df.values[pivot_df.index[1], a] > 0
          /\ correlation.values[a, b] = NaNCorr
          /\ correlation.values[b, b] = One

\* the cleaned rows of park p and facility type t
Cell(p, t) == Where(df, "Name", p) \cap Where(df, "FacilityType", t)

\* C10 (as stated): the pivot has one row per park name and one column per
\* facility type of the cleaned table, and its entry for a park and a type is
\* the sum of FacilityCount over the cleaned rows of that park and type, 0
\* when there is none.
C10_PivotOverAllKeys ==
    Returned("analyze_facility_correlation") =>
        /\ Parks(pivot_df) = {df[i]["Name"] : i \in Present(df, "Name")}
        /\ Types(pivot_df) = {df[i]["FacilityType"] : i \in Present(df, "FacilityType")}
        /\ \A p \in Parks(pivot_df), t \in Types(pivot_df) :
              pivot_df.values[p, t] = TotalOf(df, Cell(p, t))

\* C10 (amended): the pivot has one row per park name and one column per
\* facility type of the cleaned rows in which both the name and the facility
\* type are present (a row with either missing is left out); its entry for a
\* park and a type is the sum of FacilityCount over the cleaned rows of that
\* park and type, and the value 0 when there is none.
C10_PivotOverKeyedRows ==
    Returned("analyze_facility_correlation") =>
        LET keyed == Present(df, "Name") \cap Present(df, "FacilityType")
        IN /\ Parks(pivot_df) = {df[i]["Name"] : i \in keyed}
           /\ Types(pivot_df) = {df[i]["FacilityType"] : i \in keyed}
           /\ Len(pivot_df.index) = Cardinality(Parks(pivot_df))
           /\ Len(pivot_df.columns) = Cardinality(Types(pivot_df))
           /\ DOMAIN pivot_df.values = Parks(pivot_df) \X Types(pivot_df)
           /\ \A p \in Parks(pivot_df), t \in Types(pivot_df) :
                 /\ pivot_df.values[p, t] = TotalOf(df, Cell(p, t))
                 /\ Cell(p, t) = {} => pivot_df.values[p, t] = 0

\* C10 witness: a park with two rows of one facility type summing to 3 and no
\* row of the other facility type, which another park has.
C10_Witness ==
    /\ Returned("analyze_facility_correlation")
    /\ \E p \in Parks(pivot_df) : \E t, u \in Types(pivot_df) :
          /\ Cardinality(Cell(p, t)) = 2
          /\ pivot_df.values[p, t] = 3
          /\ Cell(p, u) = {}
          /\ pivot_df.values[p, u] = 0

====
